---------------------------- MODULE Spec2Model ----------------------------
(***************************************************************************)
(* tibber_refiner: the price analysis engine of src/refiner.rs and the     *)
(* per-day fan-out of src/run.rs.                                          *)
(*                                                                         *)
(* Prices are f64 in the source.  Here a price is an integer and every     *)
(* derived quantity (average, ratio, threshold value) is an exact rational *)
(* <<numerator, denominator>>; floating-point rounding and non-finite      *)
(* values are outside the model.                                           *)
(***************************************************************************)
EXTENDS Integers, Sequences, FiniteSets, TLC

(***************************************************************************)
(* Bounds of the model.                                                    *)
(***************************************************************************)
\* longest of the exhaustively enumerated short series
MaxLen == 2
\* prices of the short series range over 1..MaxPrice
MaxPrice == 2
\* store queries (reads or writes) that may fail during one run
MaxFaults == 1
\* per-hour tasks of one tick that are modelled (the source launches 24)
NumTasks == 2

(***************************************************************************)
(* Result<T, String>: the error text is not modelled.                      *)
(***************************************************************************)
Ok(v) == [ok |-> TRUE, val |-> v]
Err == [ok |-> FALSE]

(***************************************************************************)
(* Exact rationals standing for f64 values; denominators are positive.     *)
(***************************************************************************)
R(n) == <<n, 1>>
RMul(a, b) == <<a[1] * b[1], a[2] * b[2]>>
RDiv(a, b) == <<a[1] * b[2], a[2] * b[1]>>
RLess(a, b) == a[1] * b[2] < b[1] * a[2]
REq(a, b) == a[1] * b[2] = b[1] * a[2]

Days == {"Today", "Tomorrow"}
Hours == 0 .. 23

RECURSIVE SumPrices(_)
SumPrices(prices) ==
    IF prices = <<>> THEN 0 ELSE Head(prices)[2] + SumPrices(Tail(prices))

MinOf(S) == CHOOSE x \in S : \A y \in S : x <= y

(***************************************************************************)
(* The series of the store's price_info measurement, per date.             *)
(***************************************************************************)
VARIABLES
    store,      \* [Days -> series]: the rows price_info holds for each date
    ret,        \* the last direct call of an engine function and its result
    tickPc,     \* position of tick: "none", "start", "joining", "done"
    pc,         \* [hour -> position of refine(hour)], for the hours called
    prices,     \* [hour -> result of the fetch at the top of refine]
    sub,        \* [hour -> [Subs -> state of the joined sub-computation]]
    reads,      \* [hour -> read queries refine(hour) has issued]
    writes,     \* [hour -> write queries refine(hour) has issued]
    wres,       \* [hour -> outcome of the write query: "none", "ok", "err"]
    refined,    \* [hour -> the row of measurement refined, or NoRow]
    faults      \* store queries that have failed so far

vars == <<store, ret, tickPc, pc, prices, sub, reads, writes, wres, refined, faults>>
taskVars == <<tickPc, pc, prices, sub, reads, writes, wres, refined, faults>>

(***************************************************************************)
(* get_prices: one read query.  `up` is the outcome of client.query and of *)
(* the parse; a date without rows has no series in the response            *)
(* (series.get(0) is None), which is an error.                             *)
(***************************************************************************)
get_prices(day, up) ==
    IF up /\ store[day] # <<>> THEN Ok(store[day]) ELSE Err

get_hour_price(day, up) == get_prices(day, up)

(***************************************************************************)
(* price_now: prices.get(now), a positional index (0-based).               *)
(***************************************************************************)
price_now(now, ps) ==
    IF now < Len(ps) THEN Ok(R(ps[now + 1][2])) ELSE Err

(***************************************************************************)
(* average: the sum of the prices over the literal 24.0.                   *)
(***************************************************************************)
average(ps) == Ok(<<SumPrices(ps), 24>>)

price_ratio(now, ps) ==
    LET p == price_now(now, ps)
    IN  IF ~p.ok THEN Err ELSE Ok(RDiv(p.val, average(ps).val))

(***************************************************************************)
(* Vec::sort_by is a stable sort.  `asc` is the comparator a.1 cmp b.1     *)
(* (ascending price); otherwise b.1 cmp a.1 (descending price).            *)
(***************************************************************************)
Before(a, b, asc) == IF asc THEN a[2] < b[2] ELSE a[2] > b[2]

InsertSorted(s, x, asc) ==
    LET later == {i \in 1 .. Len(s) : Before(x, s[i], asc)}
    IN  IF later = {} THEN Append(s, x)
        ELSE LET k == MinOf(later)
             IN  SubSeq(s, 1, k - 1) \o <<x>> \o SubSeq(s, k, Len(s))

RECURSIVE SortFrom(_, _, _)
SortFrom(acc, rest, asc) ==
    IF rest = <<>> THEN acc
    ELSE SortFrom(InsertSorted(acc, Head(rest), asc), Tail(rest), asc)

sort_by(ps, asc) == SortFrom(<<>>, ps, asc)

InWindow(hp, start, stop) == start <= hp[1] /\ hp[1] <= stop

Filter(ps, start, stop) == SelectSeq(ps, LAMBDA hp : InWindow(hp, start, stop))

Take(s, count) == SubSeq(s, 1, IF count < Len(s) THEN count ELSE Len(s))

AnyHour(ps, now) == \E i \in 1 .. Len(ps) : ps[i][1] = now

(***************************************************************************)
(* highest: fetch, filter start <= hour <= stop, sort by a.1 cmp b.1, take *)
(* count.  lowest: the same with b.1 cmp a.1.                              *)
(***************************************************************************)
highest(day, count, start, stop, up) ==
    LET r == get_prices(day, up)
    IN  IF ~r.ok THEN Err
        ELSE Ok(Take(sort_by(Filter(r.val, start, stop), TRUE), count))

lowest(day, count, start, stop, up) ==
    LET r == get_prices(day, up)
    IN  IF ~r.ok THEN Err
        ELSE Ok(Take(sort_by(Filter(r.val, start, stop), FALSE), count))

max(day, up) ==
    LET r == highest(day, 1, 0, 24, up)
    IN  IF ~r.ok \/ r.val = <<>> THEN Err ELSE Ok(r.val[1])

min(day, up) ==
    LET r == lowest(day, 1, 0, 24, up)
    IN  IF ~r.ok \/ r.val = <<>> THEN Err ELSE Ok(r.val[1])

(***************************************************************************)
(* rel_thresh: thresholds above 1.0 are divided by 100.0; the series is    *)
(* fetched again and filtered by high_val > price && price > low_val.      *)
(***************************************************************************)
Normalize(thresh) == IF RLess(R(1), thresh) THEN RDiv(thresh, R(100)) ELSE thresh

\* rel_thresh with the bounds included (>= in place of >)
rel_thresh_inclusive(day, low_thresh, high_thresh, ps, up) ==
    LET avg == average(ps).val
        low_val == RMul(Normalize(low_thresh), avg)
        high_val == RMul(Normalize(high_thresh), avg)
        r == get_hour_price(day, up)
    IN  IF ~r.ok THEN Err
        ELSE Ok(SelectSeq(r.val, LAMBDA hp :
                    ~RLess(high_val, R(hp[2])) /\ ~RLess(R(hp[2]), low_val)))

rel_thresh(day, low_thresh, high_thresh, ps, up) ==
    LET avg == average(ps).val
        low_val == RMul(Normalize(low_thresh), avg)
        high_val == RMul(Normalize(high_thresh), avg)
        r == get_hour_price(day, up)
    IN  IF ~r.ok THEN Err
        ELSE Ok(SelectSeq(r.val, LAMBDA hp :
                    RLess(R(hp[2]), high_val) /\ RLess(low_val, R(hp[2]))))

within_thresh(now, low_thresh, high_thresh, ps, up) ==
    LET r == rel_thresh("Today", low_thresh, high_thresh, ps, up)
    IN  IF ~r.ok THEN Err ELSE Ok(AnyHour(r.val, now))

(***************************************************************************)
(* in_6_l_8: !(now in highest(2, 0, 8)) && now in highest(8, 0, 8).  The   *)
(* second fetch happens only when the first operand of && is true.         *)
(***************************************************************************)
in_6_l_8_second(day, now, up1) ==
    LET a == highest(day, 2, 0, 8, up1)
    IN  a.ok /\ ~AnyHour(a.val, now)

in_6_l_8(day, now, up1, up2) ==
    LET a == highest(day, 2, 0, 8, up1)
        b == highest(day, 8, 0, 8, up2)
    IN  IF ~a.ok THEN Err
        ELSE IF AnyHour(a.val, now) THEN Ok(FALSE)
        ELSE IF ~b.ok THEN Err
        ELSE Ok(AnyHour(b.val, now))

in_top(day, now, start, stop, up) ==
    LET r == highest(day, 3, start, stop, up)
    IN  IF ~r.ok THEN Err ELSE Ok(AnyHour(r.val, now))

in_8_low(now, up) ==
    LET r == lowest("Today", 8, 0, 8, up)
    IN  IF ~r.ok THEN Err ELSE Ok(AnyHour(r.val, now))

(***************************************************************************)
(* refine(hour): the 13 sub-computations handed to tokio::join!, in the    *)
(* order of the macro's arguments, and the read queries they issue.        *)
(* in_6_l_8 has two read sites; "in_6_l_8_b" is its second.                *)
(***************************************************************************)
Subs == {"in_6_l_8", "in_0_6_high", "in_6_12_high", "in_12_18_high",
         "in_18_24_high", "t90_115", "t60_90", "t0_60", "t115_140",
         "t140_999", "i8h_low", "pris_max", "pris_min"}

ReadSites == Subs \cup {"in_6_l_8_b"}

\* the result of sub-computation s of refine(hour), where the read queries
\* of the sites in `down` fail and all others succeed
SubResult(s, hour, ps, down) ==
    CASE s = "in_6_l_8" ->
            in_6_l_8("Today", hour, s \notin down, "in_6_l_8_b" \notin down)
      [] s = "in_0_6_high" -> in_top("Today", hour, 0, 6, s \notin down)
      [] s = "in_6_12_high" -> in_top("Today", hour, 6, 12, s \notin down)
      [] s = "in_12_18_high" -> in_top("Today", hour, 12, 18, s \notin down)
      [] s = "in_18_24_high" -> in_top("Today", hour, 18, 24, s \notin down)
      [] s = "t90_115" -> within_thresh(hour, R(90), R(115), ps, s \notin down)
      [] s = "t60_90" -> within_thresh(hour, R(60), R(90), ps, s \notin down)
      [] s = "t0_60" -> within_thresh(hour, R(0), R(60), ps, s \notin down)
      [] s = "t115_140" -> within_thresh(hour, R(115), R(140), ps, s \notin down)
      [] s = "t140_999" -> within_thresh(hour, R(140), R(999), ps, s \notin down)
      [] s = "i8h_low" -> in_8_low(hour, s \notin down)
      [] s = "pris_max" -> max("Today", s \notin down)
      [] s = "pris_min" -> min("Today", s \notin down)

\* the read queries the 13 sub-computations issue: one each, and a second
\* one by in_6_l_8 when its first operand does not decide the result
IssuedSites(hour, down) ==
    Subs \cup (IF in_6_l_8_second("Today", hour, "in_6_l_8" \notin down)
               THEN {"in_6_l_8_b"} ELSE {})

(***************************************************************************)
(* The time field: local midnight plus `hour` hours, checked_add_signed.   *)
(* For an hour of the day the addition does not overflow.                  *)
(***************************************************************************)
timestamp(hour) == Ok(hour)

(***************************************************************************)
(* The Refined struct literal: every `?` of it returns the error of the    *)
(* first failed operand; the struct is built only if none failed.          *)
(***************************************************************************)
\* the struct literal with i8h_low.unwrap_or(false) in place of i8h_low?
Refined_unwrap_or(hour, ps, res) ==
    IF \/ ~price_now(hour, ps).ok
       \/ \E s \in Subs \ {"i8h_low"} : ~res[s].ok
    THEN Err
    ELSE Ok([time |-> timestamp(hour).val,
             hour |-> hour,
             pris_snitt_24 |-> average(ps).val,
             pris_time |-> price_now(hour, ps).val,
             pris_forhold_24 |-> price_ratio(hour, ps).val,
             pris_max |-> res["pris_max"].val[1],
             pris_min |-> res["pris_min"].val[1],
             in_6_l_8 |-> res["in_6_l_8"].val,
             in_0_6_high |-> res["in_0_6_high"].val,
             in_6_12_high |-> res["in_6_12_high"].val,
             in_12_18_high |-> res["in_12_18_high"].val,
             in_18_24_high |-> res["in_18_24_high"].val,
             t90_115 |-> res["t90_115"].val,
             t60_90 |-> res["t60_90"].val,
             t0_60 |-> res["t0_60"].val,
             t115_140 |-> res["t115_140"].val,
             t140_999 |-> res["t140_999"].val,
             i8h_low |-> IF res["i8h_low"].ok THEN res["i8h_low"].val ELSE FALSE])

Refined(hour, ps, res) ==
    IF \/ ~timestamp(hour).ok
       \/ ~average(ps).ok
       \/ ~price_now(hour, ps).ok
       \/ ~price_ratio(hour, ps).ok
       \/ \E s \in Subs : ~res[s].ok
    THEN Err
    ELSE Ok([time |-> timestamp(hour).val,
             hour |-> hour,
             pris_snitt_24 |-> average(ps).val,
             pris_time |-> price_now(hour, ps).val,
             pris_forhold_24 |-> price_ratio(hour, ps).val,
             pris_max |-> res["pris_max"].val[1],
             pris_min |-> res["pris_min"].val[1],
             in_6_l_8 |-> res["in_6_l_8"].val,
             in_0_6_high |-> res["in_0_6_high"].val,
             in_6_12_high |-> res["in_6_12_high"].val,
             in_12_18_high |-> res["in_12_18_high"].val,
             in_18_24_high |-> res["in_18_24_high"].val,
             t90_115 |-> res["t90_115"].val,
             t60_90 |-> res["t60_90"].val,
             t0_60 |-> res["t0_60"].val,
             t115_140 |-> res["t115_140"].val,
             t140_999 |-> res["t140_999"].val,
             i8h_low |-> res["i8h_low"].val])

\* the row refine(hour) hands to the write query, or its error, where the
\* fetch at the top has outcome upFetch and the read sites in `down` fail
RefineRow(hour, upFetch, down) ==
    LET p == get_prices("Today", upFetch)
    IN  IF ~p.ok THEN Err
        ELSE Refined(hour, p.val, [s \in Subs |-> SubResult(s, hour, p.val, down)])

(***************************************************************************)
(* Price series the store may hold.                                        *)
(***************************************************************************)
\* a full day, hours in order, whose prices are a permutation of 1..24
\* (k is coprime to 24): Perm(1, 0) rises from hour 0 to hour 23,
\* Perm(23, 23) falls from hour 0 to hour 23
Perm(k, c) == [i \in 1 .. 24 |-> <<i - 1, ((k * (i - 1) + c) % 24) + 1>>]

FullDays == {Perm(k, c) : k \in {1, 5, 23}, c \in 0 .. 23}

Decreasing == Perm(23, 23)

\* prices 9, 8, ..., 2 at hours 0..7
Ex8 == [i \in 1 .. 8 |-> <<i - 1, 10 - i>>]

\* a full day of average 10 with hours priced exactly 60 %, 140 %, 90 %
\* and 110 % of it
Boundary ==
    [i \in 1 .. 24 |->
        <<i - 1, CASE i = 1 -> 6 [] i = 2 -> 14 [] i = 3 -> 9 [] i = 4 -> 11
                   [] OTHER -> 10>>]

HourPool == {0, 1, 9}

UniqueHours(ps) ==
    \A i, j \in 1 .. Len(ps) : ps[i][1] = ps[j][1] => i = j

\* every series of 1..MaxLen rows over HourPool with unique hours, in any
\* order, prices in 1..MaxPrice
ShortSeries ==
    UNION {{ps \in [1 .. n -> HourPool \X (1 .. MaxPrice)] : UniqueHours(ps)} :
            n \in 1 .. MaxLen}

FnSeries == FullDays \cup {Ex8, Boundary} \cup ShortSeries

TomorrowSeries == Perm(5, 3)

Windows == {<<2, 0, 8>>, <<8, 0, 8>>, <<3, 0, 6>>, <<3, 6, 12>>, <<3, 12, 18>>,
            <<3, 18, 24>>, <<1, 0, 24>>, <<24, 0, 23>>}

Quarters == {<<0, 6>>, <<6, 12>>, <<12, 18>>, <<18, 24>>}

\* the threshold pairs refine passes, and two pairs given as fractions
ThreshPairs == {<<R(90), R(115)>>, <<R(60), R(90)>>, <<R(0), R(60)>>,
                <<R(115), R(140)>>, <<R(140), R(999)>>,
                <<<<9, 10>>, <<115, 100>>>>, <<<<6, 10>>, <<9, 10>>>>}

\* subsets of the read sites of at most k elements
RECURSIVE DownSets(_)
DownSets(k) ==
    IF k <= 0 THEN {{}}
    ELSE LET P == DownSets(k - 1)
         IN  P \cup {D \cup {r} : D \in P, r \in ReadSites}

\* no read site fails, or exactly one does
SingleDown == {{}} \cup {{r} : r \in ReadSites}

NoRow == [present |-> FALSE]
Row(r) == [present |-> TRUE, row |-> r]

\* a sub-computation: its position ("idle", "wait" for the response to its
\* read query, "wait2" for the response to a second one, "done") and the
\* read sites of it whose query failed
IdleSub == [s \in Subs |-> [st |-> "idle", down |-> {}]]

\* the state of the tasks of the hours H before any of them has run
TasksIdle(H, at) ==
    /\ pc = [h \in H |-> at]
    /\ prices = [h \in H |-> Err]
    /\ sub = [h \in H |-> IdleSub]
    /\ reads = [h \in H |-> 0]
    /\ writes = [h \in H |-> 0]
    /\ wres = [h \in H |-> "none"]
    /\ refined = [h \in H |-> NoRow]
    /\ faults = 0

(***************************************************************************)
(* Direct calls of the engine's public functions on the stored series: a    *)
(* behaviour draws the series and makes one call.                          *)
(***************************************************************************)
InitFn ==
    /\ store \in [Days -> FnSeries \cup {TomorrowSeries}]
    /\ store["Today"] \in FnSeries
    /\ store["Tomorrow"] = TomorrowSeries
    /\ ret = [fn |-> "none"]
    /\ tickPc = "none"
    /\ TasksIdle({}, "idle")

CallPriceNow(now) ==
    /\ ret.fn = "none"
    /\ ret' = [fn |-> "price_now", now |-> now,
               val |-> price_now(now, store["Today"])]
    /\ UNCHANGED <<store, taskVars>>

CallAverage ==
    /\ ret.fn = "none"
    /\ ret' = [fn |-> "average", val |-> average(store["Today"])]
    /\ UNCHANGED <<store, taskVars>>

CallPriceRatio(now) ==
    /\ ret.fn = "none"
    /\ ret' = [fn |-> "price_ratio", now |-> now,
               val |-> price_ratio(now, store["Today"])]
    /\ UNCHANGED <<store, taskVars>>

CallHighest(day, w, up) ==
    /\ ret.fn = "none"
    /\ ret' = [fn |-> "highest", day |-> day, win |-> w,
               val |-> highest(day, w[1], w[2], w[3], up)]
    /\ UNCHANGED <<store, taskVars>>

CallLowest(day, w, up) ==
    /\ ret.fn = "none"
    /\ ret' = [fn |-> "lowest", day |-> day, win |-> w,
               val |-> lowest(day, w[1], w[2], w[3], up)]
    /\ UNCHANGED <<store, taskVars>>

CallMax(day, up) ==
    /\ ret.fn = "none"
    /\ ret' = [fn |-> "max", day |-> day, val |-> max(day, up)]
    /\ UNCHANGED <<store, taskVars>>

CallMin(day, up) ==
    /\ ret.fn = "none"
    /\ ret' = [fn |-> "min", day |-> day, val |-> min(day, up)]
    /\ UNCHANGED <<store, taskVars>>

\* `from` is the date whose series was fetched earlier and is passed in as
\* `prices`; within_thresh itself fetches Today's
CallWithinThresh(now, th, from, up) ==
    /\ ret.fn = "none"
    /\ ret' = [fn |-> "within_thresh", now |-> now, th |-> th, from |-> from,
               val |-> within_thresh(now, th[1], th[2], store[from], up)]
    /\ UNCHANGED <<store, taskVars>>

CallIn6L8(day, now, up1, up2) ==
    /\ ret.fn = "none"
    /\ ret' = [fn |-> "in_6_l_8", day |-> day, now |-> now,
               val |-> in_6_l_8(day, now, up1, up2)]
    /\ UNCHANGED <<store, taskVars>>

CallInTop(day, now, q, up) ==
    /\ ret.fn = "none"
    /\ ret' = [fn |-> "in_top", day |-> day, now |-> now, win |-> q,
               val |-> in_top(day, now, q[1], q[2], up)]
    /\ UNCHANGED <<store, taskVars>>

CallIn8Low(now, up) ==
    /\ ret.fn = "none"
    /\ ret' = [fn |-> "in_8_low", now |-> now, val |-> in_8_low(now, up)]
    /\ UNCHANGED <<store, taskVars>>

CallRefineRow(hour, down) ==
    /\ ret.fn = "none"
    /\ ret' = [fn |-> "refine", now |-> hour, down |-> down,
               val |-> RefineRow(hour, TRUE, down)]
    /\ UNCHANGED <<store, taskVars>>

NextFn ==
    \/ \E now \in Hours : CallPriceNow(now)
    \/ CallAverage
    \/ \E now \in Hours : CallPriceRatio(now)
    \/ \E w \in Windows, up \in BOOLEAN : CallHighest("Today", w, up)
    \/ \E w \in Windows, up \in BOOLEAN : CallLowest("Today", w, up)
    \/ \E day \in Days, up \in BOOLEAN : CallMax(day, up)
    \/ \E day \in Days, up \in BOOLEAN : CallMin(day, up)
    \/ \E now \in Hours, th \in ThreshPairs, from \in Days, up \in BOOLEAN :
            CallWithinThresh(now, th, from, up)
    \/ \E day \in Days, now \in Hours, up1, up2 \in BOOLEAN :
            CallIn6L8(day, now, up1, up2)
    \/ \E now \in Hours, q \in Quarters, up \in BOOLEAN :
            CallInTop("Today", now, q, up)
    \/ \E now \in Hours, up \in BOOLEAN : CallIn8Low(now, up)
    \/ \E hour \in Hours, down \in SingleDown : CallRefineRow(hour, down)

SpecFn == InitFn /\ [][NextFn]_vars

(***************************************************************************)
(* refine(hour) as a task.  Its steps are the points where it is resumed:  *)
(* the response to the fetch at the top, the responses to the read queries *)
(* of the joined sub-computations, and the response to the write query.    *)
(* A query fails on the store's side at most MaxFaults times in a run.     *)
(***************************************************************************)
\* let prices = get_prices(Day::Today, client).await?;
RefineFetch(h) ==
    /\ pc[h] = "fetch"
    /\ \E up \in BOOLEAN :
        /\ up \/ faults < MaxFaults
        /\ prices' = [prices EXCEPT ![h] = get_prices("Today", up)]
        /\ pc' = [pc EXCEPT ![h] =
                    IF get_prices("Today", up).ok THEN "join" ELSE "err"]
        /\ faults' = IF up THEN faults ELSE faults + 1
    /\ reads' = [reads EXCEPT ![h] = @ + 1]
    /\ UNCHANGED <<store, ret, tickPc, sub, writes, wres, refined>>

\* tokio::join!: the first poll starts the 13 futures, each of which issues
\* its read query
JoinStart(h) ==
    /\ pc[h] = "join"
    /\ pc' = [pc EXCEPT ![h] = "joining"]
    /\ sub' = [sub EXCEPT ![h] = [s \in Subs |-> [st |-> "wait", down |-> {}]]]
    /\ reads' = [reads EXCEPT ![h] = @ + Cardinality(Subs)]
    /\ UNCHANGED <<store, ret, tickPc, prices, writes, wres, refined, faults>>

\* the response to a read query of sub-computation s arrives; in_6_l_8
\* may go on to its second query
SubResponse(h, s) ==
    /\ pc[h] = "joining"
    /\ sub[h][s].st \in {"wait", "wait2"}
    /\ \E up \in BOOLEAN :
        /\ up \/ faults < MaxFaults
        /\ faults' = IF up THEN faults ELSE faults + 1
        /\ IF s = "in_6_l_8" /\ sub[h][s].st = "wait"
              /\ in_6_l_8_second("Today", h, up)
           THEN /\ sub' = [sub EXCEPT ![h][s].st = "wait2"]
                /\ reads' = [reads EXCEPT ![h] = @ + 1]
           ELSE /\ sub' = [sub EXCEPT ![h][s] =
                            [st |-> "done",
                             down |-> IF up THEN {}
                                      ELSE IF sub[h][s].st = "wait2"
                                           THEN {"in_6_l_8_b"} ELSE {s}]]
                /\ UNCHANGED reads
    /\ UNCHANGED <<store, ret, tickPc, pc, prices, writes, wres, refined>>

\* the whole join of one task as a single step: the read sites in `down`
\* fail.  It is the composition of JoinStart and the SubResponse steps of
\* task h, which share no state with any other task.
RefineJoin(h) ==
    /\ pc[h] = "join"
    /\ \E down \in DownSets(MaxFaults - faults) :
        /\ down \subseteq IssuedSites(h, down)
        /\ sub' = [sub EXCEPT ![h] =
                    [s \in Subs |->
                        [st |-> "done",
                         down |-> IF s = "in_6_l_8"
                                  THEN down \cap {s, "in_6_l_8_b"}
                                  ELSE down \cap {s}]]]
        /\ reads' = [reads EXCEPT ![h] = @ + Cardinality(IssuedSites(h, down))]
        /\ faults' = faults + Cardinality(down)
    /\ pc' = [pc EXCEPT ![h] = "joining"]
    /\ UNCHANGED <<store, ret, tickPc, prices, writes, wres, refined>>

JoinDone(h) == \A s \in Subs : sub[h][s].st = "done"

\* the values the join returns: each sub-computation's result on the
\* responses it received
SubResults(h) ==
    [s \in Subs |-> SubResult(s, h, prices[h].val, sub[h][s].down)]

\* the join has returned: build the Refined struct and issue the write
\* query, or return the first error
RefineAssemble(h) ==
    /\ pc[h] = "joining"
    /\ JoinDone(h)
    /\ IF Refined(h, prices[h].val, SubResults(h)).ok
       THEN /\ pc' = [pc EXCEPT ![h] = "write"]
            /\ writes' = [writes EXCEPT ![h] = @ + 1]
       ELSE /\ pc' = [pc EXCEPT ![h] = "err"]
            /\ UNCHANGED writes
    /\ UNCHANGED <<store, ret, tickPc, prices, sub, reads, wres, refined, faults>>

\* match write_result { Ok(_) => Ok(()), Err(e) => Err(e.to_string()) }
RefineWrite(h) ==
    /\ pc[h] = "write"
    /\ \E up \in BOOLEAN :
        /\ up \/ faults < MaxFaults
        /\ faults' = IF up THEN faults ELSE faults + 1
        /\ wres' = [wres EXCEPT ![h] = IF up THEN "ok" ELSE "err"]
        /\ pc' = [pc EXCEPT ![h] = IF up THEN "ok" ELSE "err"]
        /\ refined' = [refined EXCEPT ![h] =
                        IF up THEN Row(Refined(h, prices[h].val, SubResults(h)).val)
                        ELSE @]
    /\ UNCHANGED <<store, ret, tickPc, prices, sub, reads, writes>>

Returned(h) == pc[h] \in {"ok", "err"}

(***************************************************************************)
(* tick: one refine task per hour, joined by join_all; the results are     *)
(* dropped and tick returns Ok(()).                                        *)
(***************************************************************************)
TickHours == 0 .. NumTasks - 1

TickStart ==
    /\ tickPc = "start"
    /\ tickPc' = "joining"
    /\ pc' = [h \in TickHours |-> "fetch"]
    /\ UNCHANGED <<store, ret, prices, sub, reads, writes, wres, refined, faults>>

\* a join that resolves on the first error (try_join_all)
JoinAllDone_first_error ==
    \/ \A h \in TickHours : Returned(h)
    \/ \E h \in TickHours : pc[h] = "err"

\* join_all resolves when every handle has
JoinAllDone == \A h \in TickHours : Returned(h)

TickDone ==
    /\ tickPc = "joining"
    /\ JoinAllDone
    /\ tickPc' = "done"
    /\ UNCHANGED <<store, ret, pc, prices, sub, reads, writes, wres, refined, faults>>

OneRow == {ps \in ShortSeries : Len(ps) = 1}

TickSeries == {Decreasing} \cup OneRow

Init ==
    /\ store \in [Days -> TickSeries \cup {TomorrowSeries}]
    /\ store["Today"] \in TickSeries
    /\ store["Tomorrow"] = TomorrowSeries
    /\ ret = [fn |-> "none"]
    /\ tickPc = "start"
    /\ TasksIdle(TickHours, "idle")

Next ==
    \/ TickStart
    \/ \E h \in TickHours : RefineFetch(h)
    \/ \E h \in TickHours : RefineJoin(h)
    \/ \E h \in TickHours : RefineAssemble(h)
    \/ \E h \in TickHours : RefineWrite(h)
    \/ TickDone

Spec == Init /\ [][Next]_vars

(***************************************************************************)
(* One call of refine(hour), with the join step by step.                   *)
(***************************************************************************)
\* refine(8) on the falling full day (hour 8 is in highest(2, 0, 8), so
\* in_6_l_8 is decided by its first fetch), refine(0) on it (a second
\* fetch) and refine(1) on a one-row series (no row at index 1)
RefineCalls == {<<Decreasing, 8>>, <<Decreasing, 0>>, <<<<<<0, 2>>>>, 1>>}

InitRefine ==
    /\ \E c \in RefineCalls :
        /\ store = [d \in Days |-> IF d = "Today" THEN c[1] ELSE TomorrowSeries]
        /\ TasksIdle({c[2]}, "fetch")
    /\ ret = [fn |-> "none"]
    /\ tickPc = "none"

NextRefine ==
    \/ \E h \in DOMAIN pc : RefineFetch(h)
    \/ \E h \in DOMAIN pc : JoinStart(h)
    \/ \E h \in DOMAIN pc, s \in Subs : SubResponse(h, s)
    \/ \E h \in DOMAIN pc : RefineAssemble(h)
    \/ \E h \in DOMAIN pc : RefineWrite(h)

SpecRefine == InitRefine /\ [][NextRefine]_vars

(***************************************************************************)
(* What the claims speak of, stated on the series itself.                  *)
(***************************************************************************)
HasHour(ps, h) == \E i \in 1 .. Len(ps) : ps[i][1] = h

PriceAt(ps, h) == ps[CHOOSE i \in 1 .. Len(ps) : ps[i][1] = h][2]

DistinctPrices(ps) == \A i, j \in 1 .. Len(ps) : ps[i][2] = ps[j][2] => i = j

\* h is one of the n highest-priced hours among the hours lo..hi of ps
AmongHighest(ps, h, n, lo, hi) ==
    /\ HasHour(ps, h)
    /\ lo <= h /\ h <= hi
    /\ Cardinality({j \in 1 .. Len(ps) :
            lo <= ps[j][1] /\ ps[j][1] <= hi /\ ps[j][2] > PriceAt(ps, h)}) < n

\* h is one of the n lowest-priced hours among the hours lo..hi of ps
AmongLowest(ps, h, n, lo, hi) ==
    /\ HasHour(ps, h)
    /\ lo <= h /\ h <= hi
    /\ Cardinality({j \in 1 .. Len(ps) :
            lo <= ps[j][1] /\ ps[j][1] <= hi /\ ps[j][2] < PriceAt(ps, h)}) < n

HighestHour(ps) == CHOOSE h \in Hours : AmongHighest(ps, h, 1, 0, 23)

LowestHour(ps) == CHOOSE h \in Hours : AmongLowest(ps, h, 1, 0, 23)

\* t' = t / 100 if t > 1, and t otherwise
PercentOrFraction(t) == IF t[1] > t[2] THEN <<t[1], t[2] * 100>> ELSE t

\* lo * A < price(h) < hi * A
StrictlyBetween(ps, h, lo, hi, A) ==
    /\ HasHour(ps, h)
    /\ RLess(RMul(lo, A), R(PriceAt(ps, h)))
    /\ RLess(R(PriceAt(ps, h)), RMul(hi, A))

Today == store["Today"]

(***************************************************************************)
(* C1: during one refine(hour) call the price series is read from the      *)
(* store exactly once; no joined sub-computation issues another read.      *)
(***************************************************************************)
C1_ReadOnce == \A h \in DOMAIN pc : reads[h] <= 1

(***************************************************************************)
(* C2: the write query is issued only after all 13 joined sub-computations *)
(* have completed and only if the fetch, every one of them, average,       *)
(* price-at-hour, ratio and the timestamp succeeded; if any of them failed *)
(* refine returns an error and no write query is issued for the hour.      *)
(***************************************************************************)
AllSucceeded(h) ==
    /\ prices[h].ok
    /\ \A s \in Subs : sub[h][s].st = "done" /\ sub[h][s].down = {}
    /\ \A s \in Subs : SubResult(s, h, prices[h].val, {}).ok
    /\ timestamp(h).ok
    /\ average(prices[h].val).ok
    /\ price_now(h, prices[h].val).ok
    /\ price_ratio(h, prices[h].val).ok

SomeSubFailed(h) ==
    /\ prices[h].ok
    /\ \A s \in Subs : sub[h][s].st = "done"
    /\ \E s \in Subs : ~SubResult(s, h, prices[h].val, sub[h][s].down).ok

C2_WriteOnlyAfterAllSucceeded ==
    \A h \in DOMAIN pc :
        /\ writes[h] > 0 => AllSucceeded(h)
        /\ pc[h] \in {"write", "ok"} => AllSucceeded(h)
        /\ refined[h].present => AllSucceeded(h)
        /\ pc[h] \in {"ok", "err"} /\ ~AllSucceeded(h) =>
                pc[h] = "err" /\ writes[h] = 0

\* a joined sub-computation failed while others succeeded, and refine has
\* returned its error without a write
C2_Witness ==
    \E h \in DOMAIN pc :
        /\ pc[h] = "err"
        /\ SomeSubFailed(h)
        /\ \E s \in Subs : SubResult(s, h, prices[h].val, sub[h][s].down).ok
        /\ writes[h] = 0

(***************************************************************************)
(* C3: within one tick the per-hour refine tasks are independent: whatever *)
(* hours fail (on a read, a lookup or the write), every other hour runs to *)
(* completion and issues its own single write, no hour is written more     *)
(* than once, and tick completes only after all tasks have finished.       *)
(***************************************************************************)
\* refine(h) met a failure of its own: a failed query or a failed lookup
OwnFailure(h) ==
    \/ ~prices[h].ok
    \/ \E s \in Subs : ~SubResult(s, h, prices[h].val, sub[h][s].down).ok
    \/ ~price_now(h, prices[h].val).ok
    \/ wres[h] = "err"

\* refine(h) waits for nothing but a response of the store to itself
Unblocked(h) ==
    \/ pc[h] \in {"fetch", "join", "write"}
    \/ pc[h] = "joining" /\ \A s \in Subs : sub[h][s].st = "done"

C3_HoursIndependent ==
    /\ \A h \in TickHours : writes[h] <= 1
    /\ tickPc = "done" => \A h \in TickHours : pc[h] \in {"ok", "err"}
    /\ \A h \in TickHours :
            pc[h] \in {"ok", "err"} /\ ~OwnFailure(h) =>
                pc[h] = "ok" /\ writes[h] = 1 /\ refined[h].present
    /\ tickPc = "joining" =>
            \A h \in TickHours : pc[h] \in {"ok", "err"} \/ Unblocked(h)

\* tick is done, one hour has failed and another has written its row
C3_Witness ==
    /\ tickPc = "done"
    /\ \E h, g \in TickHours :
            /\ pc[h] = "err"
            /\ pc[g] = "ok" /\ writes[g] = 1 /\ refined[g].present

(***************************************************************************)
(* C4: for a series with pairwise distinct prices max(Today) is the hour   *)
(* of the highest price and min(Today) the hour of the lowest; for the     *)
(* 24-entry series falling from hour 0 to hour 23 max is hour 0 and min is *)
(* hour 23, and these are written as pris_max and pris_min.                *)
(***************************************************************************)
C4_MaxMinByPrice ==
    /\ ret.fn = "max" /\ ret.day = "Today" /\ ret.val.ok /\ DistinctPrices(Today)
            => ret.val.val[1] = HighestHour(Today)
    /\ ret.fn = "min" /\ ret.day = "Today" /\ ret.val.ok /\ DistinctPrices(Today)
            => ret.val.val[1] = LowestHour(Today)
    /\ ret.fn = "refine" /\ ret.val.ok /\ DistinctPrices(Today)
            => /\ ret.val.val.pris_max = HighestHour(Today)
               /\ ret.val.val.pris_min = LowestHour(Today)
    /\ ret.fn = "max" /\ ret.day = "Today" /\ ret.val.ok /\ Today = Decreasing
            => ret.val.val[1] = 0
    /\ ret.fn = "min" /\ ret.day = "Today" /\ ret.val.ok /\ Today = Decreasing
            => ret.val.val[1] = 23

(***************************************************************************)
(* C5: for every non-empty series of any length, average(series) is the    *)
(* sum of its prices divided by the number of its entries.                 *)
(***************************************************************************)
C5_AverageIsMean ==
    ret.fn = "average" /\ Today # <<>> =>
        /\ ret.val.ok
        /\ REq(ret.val.val, <<SumPrices(Today), Len(Today)>>)

(***************************************************************************)
(* C6: for any series with unique hours, sorted or not, complete or not,   *)
(* the price-at-hour lookup for hour h returns the price of the entry      *)
(* whose hour is h, and fails (so that refine fails and writes nothing)    *)
(* when the series has no entry of hour h.                                 *)
(***************************************************************************)
C6_PriceAtHourByValue ==
    /\ ret.fn = "price_now" =>
            IF HasHour(Today, ret.now)
            THEN ret.val.ok /\ REq(ret.val.val, R(PriceAt(Today, ret.now)))
            ELSE ~ret.val.ok
    /\ ret.fn = "refine" /\ ~HasHour(Today, ret.now) => ~ret.val.ok
    /\ ret.fn = "refine" /\ ret.val.ok =>
            REq(ret.val.val.pris_time, R(PriceAt(Today, ret.now)))

(***************************************************************************)
(* C7: in_6_l_8(day, hour) is true exactly when hour is among the 8        *)
(* highest-priced hours of the window 0-8 but not among its 2              *)
(* highest-priced; for prices 9,8,7,6,5,4,3,2 at hours 0-7 it is true for  *)
(* hours 2-7 and false for hours 0 and 1.                                  *)
(***************************************************************************)
C7_ShoulderBand ==
    /\ ret.fn = "in_6_l_8" /\ ret.val.ok /\ DistinctPrices(store[ret.day]) =>
            ret.val.val = (/\ AmongHighest(store[ret.day], ret.now, 8, 0, 8)
                           /\ ~AmongHighest(store[ret.day], ret.now, 2, 0, 8))
    /\ ret.fn = "in_6_l_8" /\ ret.val.ok /\ ret.day = "Today" /\ Today = Ex8 =>
            ret.val.val = (ret.now \in 2 .. 7)

(***************************************************************************)
(* C8: the i8h_low flag of an hour is true exactly when the hour is among  *)
(* the 8 lowest-priced hours of the full day (hours 0-23), and false, not  *)
(* an error, when the hour is absent from the series.                      *)
(***************************************************************************)
C8_DailyLowBand ==
    /\ ret.fn = "in_8_low" /\ ret.val.ok /\ DistinctPrices(Today) =>
            ret.val.val = AmongLowest(Today, ret.now, 8, 0, 23)
    /\ ret.fn = "refine" /\ ret.val.ok /\ DistinctPrices(Today) =>
            ret.val.val.i8h_low = AmongLowest(Today, ret.now, 8, 0, 23)

(***************************************************************************)
(* C9: each quarter-day flag is computed over its half-open window [0,6),  *)
(* [6,12), [12,18), [18,24): a flag is true only for an hour inside its    *)
(* own window, so at most one of the four is true in a record.             *)
(***************************************************************************)
QuarterFlags(r) ==
    {q \in Quarters :
        CASE q = <<0, 6>> -> r.in_0_6_high
          [] q = <<6, 12>> -> r.in_6_12_high
          [] q = <<12, 18>> -> r.in_12_18_high
          [] q = <<18, 24>> -> r.in_18_24_high}

C9_QuarterFlagsExclusive ==
    ret.fn = "refine" /\ ret.val.ok =>
        /\ \A q \in QuarterFlags(ret.val.val) : q[1] <= ret.now /\ ret.now < q[2]
        /\ Cardinality(QuarterFlags(ret.val.val)) <= 1

(***************************************************************************)
(* C10: with the store returning the same series on every read,            *)
(* within_thresh(hour, low, high) is true exactly when                     *)
(* low' * A < price(hour) < high' * A, both strict, A the value of         *)
(* average and t' = t / 100 if t > 1, t otherwise.                         *)
(***************************************************************************)
SameSeries == ret.fn = "within_thresh" /\ ret.from = "Today" /\ ret.val.ok

ThreshByRule ==
    SameSeries =>
        ret.val.val = StrictlyBetween(Today, ret.now,
                            PercentOrFraction(ret.th[1]),
                            PercentOrFraction(ret.th[2]),
                            average(Today).val)

\* C10 as stated: ... consequently thresholds (90, 115) and (0.9, 1.15)
\* give identical results, and an hour whose price equals a bound is
\* excluded.
C10_Original ==
    /\ ThreshByRule
    /\ SameSeries /\ ret.th = <<<<9, 10>>, <<115, 100>>>> =>
            ret.val.val = within_thresh(ret.now, R(90), R(115), Today, TRUE).val

\* C10 as amended: ... consequently a pair of percentages and the pair of
\* fractions not above 1 it stands for, such as (60, 90) and (0.6, 0.9),
\* give identical results, whereas 1.15 is above 1 and is itself divided
\* by 100; an hour whose price equals a bound is excluded.
C10_ThreshStrictNormalized ==
    /\ ThreshByRule
    /\ SameSeries /\ ret.th = <<<<6, 10>>, <<9, 10>>>> =>
            ret.val.val = within_thresh(ret.now, R(60), R(90), Today, TRUE).val
    /\ SameSeries /\ ret.th = <<<<9, 10>>, <<115, 100>>>> =>
            ret.val.val = StrictlyBetween(Today, ret.now, <<9, 10>>,
                                <<115, 10000>>, average(Today).val)

\* the price of the hour is exactly low' * A, low given as a percentage,
\* and the hour is excluded
C10_Witness ==
    /\ SameSeries
    /\ ret.th[1][1] > ret.th[1][2]
    /\ HasHour(Today, ret.now)
    /\ REq(R(PriceAt(Today, ret.now)),
           RMul(PercentOrFraction(ret.th[1]), average(Today).val))
    /\ ret.val.val = FALSE

=============================================================================
